---- MODULE Spec2Model ----
(***************************************************************************)
(* A model of the arc key-value database: the radix tree of arc.go over    *)
(* the nodes of node.go, and the reference-counted blob store the nodes    *)
(* keep their large values in.                                             *)
(*                                                                         *)
(* Byte slices.  A Go []byte is a record [nil, len, b]: nil tells the nil  *)
(* slice from the empty one, len is its length, and b holds its bytes up   *)
(* to the last non-zero one; the bytes after Len(b) are zero, so that      *)
(* make([]byte, n) is [len |-> n, b |-> <<>>] whatever n is.  The length   *)
(* is ext * 2^31 + len with len < 2^31, since the value limit of the       *)
(* program, 2^32 - 1, is more than one machine integer of the checker      *)
(* holds; ext is 0 for every slice but a value beyond that limit.          *)
(*                                                                         *)
(* Nodes.  A *node is an index into heap, 0 is the nil pointer.  Nodes     *)
(* that are no longer reachable from the root are collected at the end of  *)
(* every operation and the live ones are renumbered in preorder, so that   *)
(* a state is a tree and not one of its many layouts in memory.            *)
(***************************************************************************)
EXTENDS Integers, Sequences, FiniteSets, TLC

\* ----- bounds of the model ---------------------------------------------
MaxKeyLen == 2
MaxByte == 2
MaxNodes == 4
MaxRef == 2
MaxGoroutines == 2

\* ----- constants of the program ----------------------------------------
maxUint16 == 65535
\* (1 << 32) - 1 = 1 * 2^31 + (2^31 - 1)
maxUint32 == [ext |-> 1, len |-> 2147483647]
maxKeyBytes == maxUint16
maxValueBytes == maxUint32
inlineValueThreshold == 32

ErrNone == "nil"
ErrCorrupted == "ErrCorrupted"
ErrKeyNotFound == "ErrKeyNotFound"
ErrKeyTooLarge == "ErrKeyTooLarge"
ErrNilKey == "ErrNilKey"
ErrValueTooLarge == "ErrValueTooLarge"
ErrInvalidChecksum == "ErrInvalidChecksum"

sizeOfUint16 == 2
sizeOfUint32 == 4
sizeOfUint64 == 8

\* ----- byte slices -----------------------------------------------------
NilSlice == [nil |-> TRUE, ext |-> 0, len |-> 0, b |-> <<>>]

Min(x, y) == IF x < y THEN x ELSE y

\* the slice holding exactly the bytes of the sequence s
RECURSIVE TrimZeros(_)
TrimZeros(s) ==
    IF s = <<>> THEN <<>>
    ELSE IF s[Len(s)] = 0 THEN TrimZeros(SubSeq(s, 1, Len(s) - 1))
    ELSE s

Bytes(s) == [nil |-> FALSE, ext |-> 0, len |-> Len(s), b |-> TrimZeros(s)]

\* make([]byte, n)
Make(n) == [nil |-> FALSE, ext |-> 0, len |-> n, b |-> <<>>]

\* make([]byte, ext * 2^31 + n)
MakeWide(ext, n) == [nil |-> FALSE, ext |-> ext, len |-> n, b |-> <<>>]

\* len(s) > n, for a limit n below 2^31
longerThan(s, n) == s.ext > 0 \/ s.len > n

\* len(s) > w, for a limit w of two limbs
longerThanWide(s, w) == s.ext > w.ext \/ (s.ext = w.ext /\ s.len > w.len)

\* s[i] of Go, for the 1-based index i
At(s, i) == IF i <= Len(s.b) THEN s.b[i] ELSE 0

\* s[i:]
SliceFrom(s, i) ==
    [nil |-> s.nil, ext |-> s.ext, len |-> s.len - i,
     b |-> SubSeq(s.b, i + 1, Len(s.b))]

\* s[:i]
SliceTo(s, i) ==
    [nil |-> s.nil, ext |-> 0, len |-> i,
     b |-> TrimZeros(SubSeq(s.b, 1, Min(i, Len(s.b))))]

\* bytes.Equal: nil and empty slices are equal
bytesEqual(x, y) == x.ext = y.ext /\ x.len = y.len /\ x.b = y.b

\* bytes.Compare(x, y) < 0
RECURSIVE lessFrom(_, _, _)
lessFrom(x, y, i) ==
    IF i > x.len THEN i <= y.len
    ELSE IF i > y.len THEN FALSE
    ELSE IF At(x, i) # At(y, i) THEN At(x, i) < At(y, i)
    ELSE lessFrom(x, y, i + 1)

bytesLess(x, y) == lessFrom(x, y, 1)

RECURSIVE lcpScan(_, _, _, _)
lcpScan(x, y, i, minLen) ==
    IF i < minLen /\ At(x, i + 1) = At(y, i + 1)
    THEN lcpScan(x, y, i + 1, minLen)
    ELSE i

longestCommonPrefix(x, y) ==
    LET minLen == Min(x.len, y.len)
        i == lcpScan(x, y, 0, minLen)
    IN IF i = 0 THEN NilSlice ELSE SliceTo(x, i)

\* the bytes of s written out, zeros included
Expand(s) == [i \in 1..s.len |-> At(s, i)]

\* ----- blob store ------------------------------------------------------
\* blobs is a function from the blobIDs present to [value, refCount]
EmptyStore == [id \in {} |-> [value |-> NilSlice, refCount |-> 0]]

\* a hash of the bytes of s that tells their order
RECURSIVE SumSeq(_)
SumSeq(s) == IF s = <<>> THEN 0 ELSE (s[1] + 31 * SumSeq(Tail(s))) % 65521

\* the content hash of a value: three bytes wide, the same for the same
\* content, and different for the different values of the model
makeBlobID(value) ==
    LET h == SumSeq(value.b)
    IN [nil |-> FALSE, ext |-> 0, len |-> 3,
        b |-> TrimZeros(<<(value.len % 255) + 1, h % 256, h \div 256>>)]

PutAlwaysCreates(bs, value) ==
    [id |-> makeBlobID(value),
     blobs |-> [x \in DOMAIN bs \cup {makeBlobID(value)} |->
                  IF x = makeBlobID(value)
                  THEN [value |-> value, refCount |-> 1] ELSE bs[x]]]

bsPut(bs, value) ==
    LET id == makeBlobID(value)
    IN [id |-> id,
        blobs |-> IF id \in DOMAIN bs
                  THEN [bs EXCEPT ![id].refCount = @ + 1]
                  ELSE [x \in DOMAIN bs \cup {id} |->
                          IF x = id THEN [value |-> value, refCount |-> 1]
                          ELSE bs[x]]]

bsGet(bs, id) == IF id \in DOMAIN bs THEN bs[id].value ELSE NilSlice

ReleaseKeepsEntry(bs, id) ==
    IF id \notin DOMAIN bs THEN bs
    ELSE [bs EXCEPT ![id].refCount = @ - 1]

bsRelease(bs, id) ==
    IF id \notin DOMAIN bs THEN bs
    ELSE IF bs[id].refCount - 1 <= 0
         THEN [x \in DOMAIN bs \ {id} |-> bs[x]]
         ELSE [bs EXCEPT ![id].refCount = @ - 1]

\* ----- nodes -----------------------------------------------------------
\* the addresses a node can have: a Put allocates up to two nodes beyond
\* those of the tree
NodeIds == 1..(MaxNodes + 2)

\* &node{}
ZeroNode ==
    [key |-> NilSlice, isRecord |-> FALSE, blobValue |-> FALSE,
     numChildren |-> 0, firstChild |-> 0, nextSibling |-> 0,
     data |-> NilSlice]

hasChildren(h, n) == h[n].firstChild # 0

isLeaf(h, n) == h[n].firstChild = 0

RECURSIVE compatibleFrom(_, _, _)
compatibleFrom(h, child, key) ==
    IF child = 0 THEN 0
    ELSE IF longestCommonPrefix(h[child].key, key).len > 0 THEN child
    ELSE compatibleFrom(h, h[child].nextSibling, key)

findCompatibleChild(h, n, key) == compatibleFrom(h, h[n].firstChild, key)

setKey(h, n, key) == [h EXCEPT ![n].key = key]

SetValueLeaksOld(h, bs, n, value) ==
    IF value.len <= inlineValueThreshold
    THEN [heap |-> [h EXCEPT ![n].data = value, ![n].blobValue = FALSE,
                             ![n].isRecord = TRUE],
          blobs |-> bs]
    ELSE LET r == bsPut(bs, value)
         IN [heap |-> [h EXCEPT ![n].data = r.id, ![n].blobValue = TRUE,
                                ![n].isRecord = TRUE],
             blobs |-> r.blobs]

SetValueInlineBelow(h, bs, n, value) ==
    LET bs1 == IF h[n].blobValue THEN bsRelease(bs, h[n].data) ELSE bs
    IN IF value.len < inlineValueThreshold
       THEN [heap |-> [h EXCEPT ![n].data = value, ![n].blobValue = FALSE,
                                ![n].isRecord = TRUE],
             blobs |-> bs1]
       ELSE [heap |-> [h EXCEPT ![n].data = bsPut(bs1, value).id,
                                ![n].blobValue = TRUE, ![n].isRecord = TRUE],
             blobs |-> bsPut(bs1, value).blobs]

\* returns the heap and the blob store after n.setValue(bs, value)
setValue(h, bs, n, value) ==
    LET bs1 == IF h[n].blobValue THEN bsRelease(bs, h[n].data) ELSE bs
    IN IF value.len <= inlineValueThreshold
       THEN [heap |-> [h EXCEPT ![n].data = value, ![n].blobValue = FALSE,
                                ![n].isRecord = TRUE],
             blobs |-> bs1]
       ELSE LET r == bsPut(bs1, value)
            IN [heap |-> [h EXCEPT ![n].data = r.id, ![n].blobValue = TRUE,
                                   ![n].isRecord = TRUE],
                blobs |-> r.blobs]

deleteValue(h, bs, n) ==
    [heap |-> [h EXCEPT ![n].data = NilSlice],
     blobs |-> IF h[n].blobValue THEN bsRelease(bs, h[n].data) ELSE bs]

\* n.value(bs)
valueOf(h, bs, n) ==
    IF h[n].data.nil THEN NilSlice
    ELSE IF ~h[n].blobValue THEN h[n].data
    ELSE bsGet(bs, h[n].data)

PrependDropsPrefix(h, n, prefix) == h

prependKey(h, n, prefix) ==
    IF prefix.len = 0 THEN h
    ELSE [h EXCEPT ![n].key = Bytes(Expand(prefix) \o Expand(h[n].key))]

\* the node after which addChild links child: the last one whose next
\* sibling's key is smaller than child's
RECURSIVE insertionPoint(_, _, _)
insertionPoint(h, current, child) ==
    IF h[current].nextSibling # 0
       /\ bytesLess(h[h[current].nextSibling].key, h[child].key)
    THEN insertionPoint(h, h[current].nextSibling, child)
    ELSE current

AddChildInFront(h, n, child) ==
    [h EXCEPT ![n].numChildren = @ + 1,
              ![child].nextSibling = h[n].firstChild,
              ![n].firstChild = child]

addChild(h, n, child) ==
    LET h1 == [h EXCEPT ![n].numChildren = @ + 1]
    IN IF h1[n].firstChild = 0
       THEN [h1 EXCEPT ![child].nextSibling = 0, ![n].firstChild = child]
       ELSE IF bytesLess(h1[child].key, h1[h1[n].firstChild].key)
       THEN [h1 EXCEPT ![child].nextSibling = h1[n].firstChild,
                       ![n].firstChild = child]
       ELSE LET current == insertionPoint(h1, h1[n].firstChild, child)
                h2 == [h1 EXCEPT ![child].nextSibling = h1[current].nextSibling]
            IN [h2 EXCEPT ![current].nextSibling = child]

\* the node whose nextSibling has child's key, 0 when there is none
RECURSIVE predecessorOf(_, _, _)
predecessorOf(h, current, child) ==
    IF h[current].nextSibling = 0 THEN 0
    ELSE IF bytesEqual(h[h[current].nextSibling].key, h[child].key) THEN current
    ELSE predecessorOf(h, h[current].nextSibling, child)

removeChild(h, n, child) ==
    IF h[n].firstChild = 0 THEN [heap |-> h, err |-> ErrKeyNotFound]
    ELSE IF bytesEqual(h[h[n].firstChild].key, h[child].key)
    THEN [heap |-> [h EXCEPT ![n].firstChild = h[h[n].firstChild].nextSibling,
                             ![n].numChildren = @ - 1],
          err |-> ErrNone]
    ELSE LET current == predecessorOf(h, h[n].firstChild, child)
         IN IF current = 0 THEN [heap |-> h, err |-> ErrKeyNotFound]
            ELSE [heap |-> [h EXCEPT ![current].nextSibling =
                                        h[h[current].nextSibling].nextSibling,
                                     ![n].numChildren = @ - 1],
                  err |-> ErrNone]

\* ----- the tree ---------------------------------------------------------
\* An Arc is a record t = [heap, root, numNodes, numRecords, blobs].

\* New()
NewArc ==
    [heap |-> [i \in NodeIds |-> ZeroNode], root |-> 0,
     numNodes |-> 0, numRecords |-> 0, blobs |-> EmptyStore]

\* the nodes reachable from n, in preorder
RECURSIVE Preorder(_, _)
Preorder(h, n) ==
    IF n = 0 THEN <<>>
    ELSE <<n>> \o Preorder(h, h[n].firstChild) \o Preorder(h, h[n].nextSibling)

Live(t) == {Preorder(t.heap, t.root)[i] : i \in 1..Len(Preorder(t.heap, t.root))}

\* the address a new node gets: the first one that is not in use
Alloc(used) == CHOOSE i \in NodeIds \ used : \A j \in NodeIds \ used : i <= j

\* garbage collection: the live nodes, renumbered in preorder
Collect(t) ==
    LET order == Preorder(t.heap, t.root)
        pos(n) == IF n = 0 THEN 0
                  ELSE CHOOSE i \in 1..Len(order) : order[i] = n
    IN [t EXCEPT
          !.root = pos(t.root),
          !.heap = [i \in NodeIds |->
                      IF i <= Len(order)
                      THEN [t.heap[order[i]] EXCEPT
                              !.firstChild = pos(@), !.nextSibling = pos(@)]
                      ELSE ZeroNode]]

empty(t) == t.root = 0 /\ t.numRecords = 0

ClearKeepsNumNodes(t) == [t EXCEPT !.root = 0, !.numRecords = 0]

clear(t) == [t EXCEPT !.root = 0, !.numNodes = 0, !.numRecords = 0]

Len_(t) == t.numRecords

SplitKeepsCurrentKey(t, parent, current, newNode, commonPrefix, newParent) ==
    LET h0 == [t.heap EXCEPT ![newParent] = [ZeroNode EXCEPT !.key = commonPrefix]]
        h1 == IF current = t.root THEN h0
              ELSE addChild(removeChild(h0, parent, current).heap, parent, newParent)
        h2 == [h1 EXCEPT ![current].nextSibling = 0]
        h3 == addChild(h2, newParent, current)
        h4 == addChild(h3, newParent, newNode)
    IN [t EXCEPT !.heap = h4,
                 !.root = IF current = t.root THEN newParent ELSE @,
                 !.numNodes = @ + 2, !.numRecords = @ + 1]

splitNode(t, parent, current, newNode, commonPrefix, newParent) ==
    LET h0 == [t.heap EXCEPT ![newParent] = [ZeroNode EXCEPT !.key = commonPrefix]]
    IN IF current = t.root
       THEN LET h1 == setKey(h0, current, SliceFrom(h0[current].key, commonPrefix.len))
                h2 == setKey(h1, newNode, SliceFrom(h1[newNode].key, commonPrefix.len))
                h3 == addChild(h2, newParent, current)
                h4 == addChild(h3, newParent, newNode)
            IN [t EXCEPT !.heap = h4, !.root = newParent,
                         !.numNodes = @ + 2, !.numRecords = @ + 1]
       ELSE LET h1 == removeChild(h0, parent, current).heap
                h2 == addChild(h1, parent, newParent)
                h3 == [h2 EXCEPT ![current].nextSibling = 0]
                h4 == setKey(h3, current, SliceFrom(h3[current].key, commonPrefix.len))
                h5 == setKey(h4, newNode, SliceFrom(h4[newNode].key, commonPrefix.len))
                h6 == addChild(h5, newParent, current)
                h7 == addChild(h6, newParent, newNode)
            IN [t EXCEPT !.heap = h7,
                         !.numNodes = @ + 2, !.numRecords = @ + 1]

OverwriteAlwaysCounts(t, current, value) ==
    LET sv == setValue(t.heap, t.blobs, current, value)
    IN [t EXCEPT !.heap = sv.heap, !.blobs = sv.blobs, !.numRecords = @ + 1]

\* the exact match of Put: the value of current is overwritten in place
overwrite(t, current, value) ==
    LET sv == setValue(t.heap, t.blobs, current, value)
    IN [t EXCEPT !.heap = sv.heap, !.blobs = sv.blobs,
                 !.numRecords = IF t.heap[current].isRecord THEN @ ELSE @ + 1]

\* the loop of Put; spare is the address of the node the loop may create
RECURSIVE putLoop(_, _, _, _, _, _, _)
putLoop(t, parent, current, key, value, newNode, spare) ==
    LET h == t.heap
        prefix == longestCommonPrefix(h[current].key, key)
        prefixLen == prefix.len
    IN IF prefixLen = h[current].key.len /\ prefixLen = h[newNode].key.len
       THEN [t |-> overwrite(t, current, value), err |-> ErrNone]
       ELSE IF prefixLen = h[newNode].key.len /\ prefixLen < h[current].key.len
       THEN \* newNode becomes the parent of current
            IF current = t.root
            THEN LET h1 == setKey(h, current,
                                  SliceFrom(h[current].key, h[newNode].key.len))
                     h2 == addChild(h1, newNode, current)
                 IN [t |-> [t EXCEPT !.heap = h2, !.root = newNode,
                                     !.numNodes = @ + 1, !.numRecords = @ + 1],
                     err |-> ErrNone]
            ELSE LET rm == removeChild(h, parent, current)
                 IN IF rm.err # ErrNone THEN [t |-> t, err |-> rm.err]
                    ELSE LET h1 == setKey(rm.heap, current,
                                          SliceFrom(rm.heap[current].key,
                                                    rm.heap[newNode].key.len))
                             h2 == addChild(h1, newNode, current)
                             h3 == addChild(h2, parent, newNode)
                         IN [t |-> [t EXCEPT !.heap = h3, !.numNodes = @ + 1,
                                             !.numRecords = @ + 1],
                             err |-> ErrNone]
       ELSE IF prefixLen > 0 /\ prefixLen < h[current].key.len
       THEN [t |-> splitNode(t, parent, current, newNode, prefix, spare),
             err |-> ErrNone]
       ELSE LET key1 == SliceFrom(key, prefixLen)
                nextNode == findCompatibleChild(h, current, key1)
                h1 == setKey(h, newNode, SliceFrom(h[newNode].key, prefixLen))
                t1 == [t EXCEPT !.heap = h1]
            IN IF nextNode = 0
               THEN IF current = t.root
                    THEN IF h1[t.root].key.nil \/ prefixLen = h1[t.root].key.len
                         THEN [t |-> [t1 EXCEPT
                                        !.heap = addChild(h1, t.root, newNode),
                                        !.numNodes = @ + 1, !.numRecords = @ + 1],
                               err |-> ErrNone]
                         ELSE LET h2 == [h1 EXCEPT ![spare] =
                                           [ZeroNode EXCEPT !.key = prefix]]
                                  h3 == addChild(h2, spare, current)
                                  h4 == addChild(h3, spare, newNode)
                              IN [t |-> [t1 EXCEPT !.heap = h4, !.root = spare,
                                                   !.numNodes = @ + 2,
                                                   !.numRecords = @ + 1],
                                  err |-> ErrNone]
                    ELSE [t |-> [t1 EXCEPT
                                   !.heap = addChild(h1, current, newNode),
                                   !.numNodes = @ + 1, !.numRecords = @ + 1],
                          err |-> ErrNone]
               ELSE putLoop(t1, current, nextNode, key1, value, newNode, spare)

\* Put from the lock on: newNode, built from the key and the value, is
\* linked into the tree t1
putInsert(t1, key, value, newNode, spare) ==
       IF empty(t1)
       THEN [t |-> [t1 EXCEPT !.root = newNode, !.numNodes = 1,
                              !.numRecords = 1],
             err |-> ErrNone]
       ELSE IF t1.heap[t1.root].key.len > 0
               /\ longestCommonPrefix(t1.heap[t1.root].key, key).nil
       THEN LET oldRoot == t1.root
                h2 == [t1.heap EXCEPT ![spare] = ZeroNode]
                h3 == addChild(h2, spare, oldRoot)
                h4 == addChild(h3, spare, newNode)
            IN [t |-> [t1 EXCEPT !.heap = h4, !.root = spare,
                                 !.numNodes = @ + 2, !.numRecords = @ + 1],
                err |-> ErrNone]
       ELSE putLoop(t1, 0, t1.root, key, value, newNode, spare)

\* Put once the key and the value have passed validation
putChecked(t, key, value) ==
    LET newNode == Alloc(Live(t))
        spare == Alloc(Live(t) \cup {newNode})
        h0 == [t.heap EXCEPT ![newNode] = ZeroNode]
        h1 == setKey(h0, newNode, key)
        sv == setValue(h1, t.blobs, newNode, value)
        t1 == [t EXCEPT !.heap = sv.heap, !.blobs = sv.blobs]
    IN putInsert(t1, key, value, newNode, spare)

PutSetsValueFirst(t, key, value) ==
    LET newNode == Alloc(Live(t))
        sv == setValue([t.heap EXCEPT ![newNode] = ZeroNode], t.blobs,
                       newNode, value)
        t1 == [t EXCEPT !.blobs = sv.blobs]
    IN IF key.nil THEN [t |-> t1, err |-> ErrNilKey]
       ELSE IF longerThan(key, maxKeyBytes) THEN [t |-> t1, err |-> ErrKeyTooLarge]
       ELSE IF longerThanWide(value, maxValueBytes) THEN [t |-> t1, err |-> ErrValueTooLarge]
       ELSE putChecked(t, key, value)

Put(t, key, value) ==
    IF key.nil THEN [t |-> t, err |-> ErrNilKey]
    ELSE IF longerThan(key, maxKeyBytes) THEN [t |-> t, err |-> ErrKeyTooLarge]
    ELSE IF longerThanWide(value, maxValueBytes) THEN [t |-> t, err |-> ErrValueTooLarge]
    ELSE putChecked(t, key, value)

\* the loop of findNodeAndParent
RECURSIVE findLoop(_, _, _, _)
findLoop(t, current, parent, key) ==
    LET h == t.heap
        prefix == longestCommonPrefix(h[current].key, key)
        prefixLen == prefix.len
        NotFound == [node |-> 0, parent |-> 0, err |-> ErrKeyNotFound]
    IN IF prefix.nil /\ current # t.root THEN NotFound
       ELSE IF prefixLen # h[current].key.len THEN NotFound
       ELSE IF prefixLen = key.len
       THEN [node |-> current, parent |-> parent, err |-> ErrNone]
       ELSE IF ~hasChildren(h, current) THEN NotFound
       ELSE LET key1 == SliceFrom(key, prefix.len)
                next == findCompatibleChild(h, current, key1)
            IN IF next = 0 THEN NotFound
               ELSE findLoop(t, next, current, key1)

findNodeAndParent(t, key) ==
    IF key.nil THEN [node |-> 0, parent |-> 0, err |-> ErrNilKey]
    ELSE IF empty(t) THEN [node |-> 0, parent |-> 0, err |-> ErrKeyNotFound]
    ELSE findLoop(t, t.root, 0, key)

Get(t, key) ==
    IF key.nil THEN [value |-> NilSlice, err |-> ErrNilKey]
    ELSE LET f == findNodeAndParent(t, key)
         IN IF f.err # ErrNone THEN [value |-> NilSlice, err |-> f.err]
            ELSE IF ~t.heap[f.node].isRecord
            THEN [value |-> NilSlice, err |-> ErrKeyNotFound]
            ELSE [value |-> t.heap[f.node].data, err |-> ErrNone]

DeleteRootKeepsValue(t) ==
    IF isLeaf(t.heap, t.root) THEN clear(t)
    ELSE IF t.heap[t.root].numChildren = 1
    THEN LET child == t.heap[t.root].firstChild
         IN [t EXCEPT !.heap = prependKey(t.heap, child, t.heap[t.root].key),
                      !.root = child,
                      !.numNodes = @ - 1, !.numRecords = @ - 1]
    ELSE [t EXCEPT !.heap = [t.heap EXCEPT ![t.root].isRecord = FALSE],
                   !.numRecords = @ - 1]

DeleteRootDemotes(t) ==
    IF isLeaf(t.heap, t.root) THEN clear(t)
    ELSE [t EXCEPT !.heap = [t.heap EXCEPT ![t.root].isRecord = FALSE,
                                           ![t.root].data = NilSlice],
                   !.numRecords = @ - 1]

DeleteRootKeepsNumNodes(t) ==
    IF isLeaf(t.heap, t.root) THEN clear(t)
    ELSE IF t.heap[t.root].numChildren = 1
    THEN LET child == t.heap[t.root].firstChild
         IN [t EXCEPT !.heap = prependKey(t.heap, child, t.heap[t.root].key),
                      !.root = child, !.numRecords = @ - 1]
    ELSE [t EXCEPT !.heap = [t.heap EXCEPT ![t.root].isRecord = FALSE,
                                           ![t.root].data = NilSlice],
                   !.numRecords = @ - 1]

deleteRootNode(t) ==
    IF isLeaf(t.heap, t.root) THEN clear(t)
    ELSE IF t.heap[t.root].numChildren = 1
    THEN LET child == t.heap[t.root].firstChild
         IN [t EXCEPT !.heap = prependKey(t.heap, child, t.heap[t.root].key),
                      !.root = child,
                      !.numNodes = @ - 1, !.numRecords = @ - 1]
    ELSE [t EXCEPT !.heap = [t.heap EXCEPT ![t.root].isRecord = FALSE,
                                           ![t.root].data = NilSlice],
                   !.numRecords = @ - 1]

\* Delete from the lock on
deleteLocked(t, key) ==
    LET f == findNodeAndParent(t, key)
    IN IF f.err # ErrNone THEN [t |-> t, err |-> f.err]
       ELSE IF ~t.heap[f.node].isRecord THEN [t |-> t, err |-> ErrKeyNotFound]
       ELSE IF f.node = t.root THEN [t |-> deleteRootNode(t), err |-> ErrNone]
       ELSE IF f.parent = 0 THEN [t |-> t, err |-> ErrCorrupted]
       ELSE [t |-> t, err |-> ErrNone]

Delete(t, key) ==
    IF key.nil THEN [t |-> t, err |-> ErrNilKey]
    ELSE IF empty(t) THEN [t |-> t, err |-> ErrKeyNotFound]
    ELSE IF longerThan(key, maxKeyBytes) THEN [t |-> t, err |-> ErrKeyTooLarge]
    ELSE deleteLocked(t, key)

\* ----- the state machine ------------------------------------------------
VARIABLES
    heap,        \* the nodes, by address
    root,        \* Arc.root, 0 when nil
    numNodes,    \* Arc.numNodes
    numRecords,  \* Arc.numRecords
    blobs,       \* the blob store of the database
    last,        \* the name of the last call
    shadow,      \* the key-value map the calls so far describe
    fresh,       \* a database created at the last Clear, given the same calls
    mu,          \* Arc.mu: the goroutine holding the write lock, 0 when
                 \* none does, and the goroutines holding the read lock
    gor,         \* the goroutines calling the database: where each one is
                 \* in its call, and the arguments of the call
    subject,     \* a node on its own, with the checksum kept for it
    summed,      \* the key, value and isRecord flag of subject when its
                 \* checksum was last updated
    ledger       \* the calls made on the blob store for one node: the IDs
                 \* put and the IDs released, in order, and the value the
                 \* node was given last

vars ==
    <<heap, root, numNodes, numRecords, blobs, last, shadow, fresh, mu, gor,
      subject, summed, ledger>>

\* what the calls made one at a time leave alone
others == <<mu, gor, subject, summed, ledger>>

arc ==
    [heap |-> heap, root |-> root, numNodes |-> numNodes,
     numRecords |-> numRecords, blobs |-> blobs]

\* the keys and values the calls are made with
RECURSIVE SeqsUpTo(_)
SeqsUpTo(n) ==
    IF n = 0 THEN {<<>>}
    ELSE SeqsUpTo(n - 1)
         \cup {Append(s, b) : s \in {x \in SeqsUpTo(n - 1) : Len(x) = n - 1},
                              b \in 1..MaxByte}

Keys == {Bytes(s) : s \in SeqsUpTo(MaxKeyLen)}
BigKey == Make(maxKeyBytes + 1)
AllKeys == Keys \cup {NilSlice, BigKey}

ShortValue == Bytes(<<1>>)
LongValue == Make(inlineValueThreshold + 1)
Values == {ShortValue, LongValue}
\* make([]byte, 1 << 32)
BigValue == MakeWide(2, 0)
AllValues == Values \cup {BigValue}

EmptyMap == [k \in {} |-> NilSlice]

\* the goroutines that call the database
Goroutines == 1..MaxGoroutines

\* the zero sync.RWMutex
Unlocked == [writer |-> 0, readers |-> {}]

\* a goroutine that is in no call
Idle == [pc |-> "idle", key |-> NilSlice, value |-> NilSlice, before |-> NewArc]

\* &node{}, for the node that is looked at on its own
ZeroSubject ==
    [key |-> NilSlice, data |-> NilSlice, isRecord |-> FALSE,
     numChildren |-> 0, checksum |-> 0]

\* no call was made on the blob store yet
NoCalls == [puts |-> <<>>, releases |-> <<>>, value |-> NilSlice]

\* no checksum was computed yet
NoSum == [valid |-> FALSE, key |-> <<>>, data |-> <<>>, isRecord |-> FALSE]

Init ==
    /\ heap = NewArc.heap
    /\ root = NewArc.root
    /\ numNodes = NewArc.numNodes
    /\ numRecords = NewArc.numRecords
    /\ blobs = NewArc.blobs
    /\ last = "New"
    /\ shadow = EmptyMap
    /\ fresh = [cleared |-> FALSE, t |-> NewArc]
    /\ mu = Unlocked
    /\ gor = [g \in Goroutines |-> Idle]
    /\ subject = ZeroSubject
    /\ summed = NoSum
    /\ ledger = NoCalls

SetArc(t) ==
    /\ heap' = t.heap
    /\ root' = t.root
    /\ numNodes' = t.numNodes
    /\ numRecords' = t.numRecords
    /\ blobs' = t.blobs

\* The states explored hold at most MaxNodes nodes and MaxRef references
\* to a blob: a Put, which allocates up to two nodes, is taken while two
\* of the MaxNodes addresses are free and the counts stay within MaxRef.
Room(t, after) ==
    /\ Cardinality(Live(t)) + 2 <= MaxNodes
    /\ \A id \in DOMAIN after.blobs : after.blobs[id].refCount <= MaxRef

PutOp(key, value) ==
    LET r == Put(arc, key, value)
    IN /\ Room(arc, r.t)
       /\ SetArc(Collect(r.t))
       /\ last' = "Put"

GetOp(key) ==
    /\ Get(arc, key).err \in {ErrNone, ErrKeyNotFound, ErrNilKey}
    /\ last' = "Get"
    /\ UNCHANGED <<heap, root, numNodes, numRecords, blobs>>

LenOp ==
    /\ Len_(arc) = numRecords
    /\ last' = "Len"
    /\ UNCHANGED <<heap, root, numNodes, numRecords, blobs>>

DeleteOp(key) ==
    LET r == Delete(arc, key)
    IN /\ SetArc(Collect(r.t))
       /\ last' = "Delete"

ClearOp ==
    /\ SetArc(Collect(clear(arc)))
    /\ last' = "Clear"

Next ==
    \/ \E key \in AllKeys, value \in AllValues :
          PutOp(key, value) /\ UNCHANGED <<shadow, fresh, others>>
    \/ \E key \in AllKeys : GetOp(key) /\ UNCHANGED <<shadow, fresh, others>>
    \/ LenOp /\ UNCHANGED <<shadow, fresh, others>>
    \/ \E key \in AllKeys : DeleteOp(key) /\ UNCHANGED <<shadow, fresh, others>>
    \/ ClearOp /\ UNCHANGED <<shadow, fresh, others>>

Spec == Init /\ [][Next]_vars

\* ----- the calls, with the map they describe kept beside the tree -------
MapPut(key, value) ==
    shadow' = IF Put(arc, key, value).err # ErrNone THEN shadow
              ELSE [k \in DOMAIN shadow \cup {key} |->
                      IF k = key THEN value ELSE shadow[k]]

MapDelete(key) ==
    shadow' = IF Delete(arc, key).err # ErrNone THEN shadow
              ELSE [k \in DOMAIN shadow \ {key} |-> shadow[k]]

MapClear == shadow' = EmptyMap

NextMap ==
    \/ \E key \in AllKeys, value \in AllValues :
          PutOp(key, value) /\ MapPut(key, value) /\ UNCHANGED <<fresh, others>>
    \/ \E key \in AllKeys : GetOp(key) /\ UNCHANGED <<shadow, fresh, others>>
    \/ LenOp /\ UNCHANGED <<shadow, fresh, others>>
    \/ \E key \in AllKeys : DeleteOp(key) /\ MapDelete(key) /\ UNCHANGED <<fresh, others>>
    \/ ClearOp /\ MapClear /\ UNCHANGED <<fresh, others>>

SpecMap == Init /\ [][NextMap]_vars

\* Put, Get and Len only
NextPut ==
    \/ \E key \in AllKeys, value \in AllValues :
          PutOp(key, value) /\ MapPut(key, value) /\ UNCHANGED <<fresh, others>>
    \/ \E key \in AllKeys : GetOp(key) /\ UNCHANGED <<shadow, fresh, others>>
    \/ LenOp /\ UNCHANGED <<shadow, fresh, others>>

SpecPut == Init /\ [][NextPut]_vars

\* ----- the calls, repeated on a database created at the last Clear ------
FreshPut(key, value) ==
    LET f == Put(fresh.t, key, value)
    IN /\ Room(fresh.t, f.t)
       /\ fresh' = [fresh EXCEPT !.t = Collect(f.t)]

FreshDelete(key) == fresh' = [fresh EXCEPT !.t = Collect(Delete(fresh.t, key).t)]

FreshClear == fresh' = [cleared |-> TRUE, t |-> NewArc]

NextClear ==
    \/ \E key \in AllKeys, value \in AllValues :
          PutOp(key, value) /\ FreshPut(key, value) /\ UNCHANGED <<shadow, others>>
    \/ \E key \in AllKeys : GetOp(key) /\ UNCHANGED <<shadow, fresh, others>>
    \/ LenOp /\ UNCHANGED <<shadow, fresh, others>>
    \/ \E key \in AllKeys : DeleteOp(key) /\ FreshDelete(key) /\ UNCHANGED <<shadow, others>>
    \/ ClearOp /\ FreshClear /\ UNCHANGED <<shadow, others>>

SpecClear == Init /\ [][NextClear]_vars

\* ----- the calls, made by goroutines that run at the same time ---------
\* A call is a sequence of steps, and gor[g].pc names the statement that
\* goroutine g executes next.  A writer changes the tree in two steps: the
\* first leaves it half done, the links changed and the counters not yet
\* (the counter changed and the value not yet, when a value is overwritten),
\* the second finishes the change and returns, which unlocks.

\* the keys and values of the calls made at the same time
ConcKeys == {Bytes(<<1>>), Bytes(<<1, 1>>), Bytes(<<1, 2>>)}
ConcValues == {ShortValue, LongValue}

RLockIgnoresWriter(m) == TRUE

\* a.mu.RLock() returns once no goroutine holds the write lock
canRLock(m) == m.writer = 0

\* a.mu.Lock() returns once no goroutine holds the lock
canLock(m) == m.writer = 0 /\ m.readers = {}

At_(g, pc) == gor[g].pc = pc

Goto(g, pc) == gor' = [gor EXCEPT ![g].pc = pc]

\* the tree after the links of the change from t to r are made and before
\* its counters are
halfDone(t, r) == [r EXCEPT !.numNodes = t.numNodes, !.numRecords = t.numRecords]

\* what Put does under the lock to the tree t
putLocked(t, key, value) ==
    LET newNode == Alloc(Live(t))
        spare == Alloc(Live(t) \cup {newNode})
        h0 == [t.heap EXCEPT ![newNode] = ZeroNode]
        h1 == setKey(h0, newNode, key)
        sv == setValue(h1, EmptyStore, newNode, value)
    IN putInsert([t EXCEPT !.heap = sv.heap], key, value, newNode, spare).t

\* Put, before the lock: the arguments are checked
PutCall(g, key, value) ==
    /\ At_(g, "idle")
    /\ IF key.nil \/ longerThan(key, maxKeyBytes)
          \/ longerThanWide(value, maxValueBytes)
       THEN UNCHANGED gor
       ELSE gor' = [gor EXCEPT ![g] = [Idle EXCEPT !.pc = "PutNewNode",
                                                   !.key = key, !.value = value]]
    /\ UNCHANGED <<heap, root, numNodes, numRecords, blobs, mu>>

\* Put, before the lock: newNode is built, and a value beyond the inline
\* threshold goes to the blob store
PutNewNode(g) ==
    /\ At_(g, "PutNewNode")
    /\ blobs' = setValue(NewArc.heap, blobs, 1, gor[g].value).blobs
    /\ \A id \in DOMAIN blobs' : blobs'[id].refCount <= MaxRef
    /\ Goto(g, "PutLock")
    /\ UNCHANGED <<heap, root, numNodes, numRecords, mu>>

\* The states explored hold at most MaxNodes nodes and MaxRef references
\* to a blob: the lock is taken for a Put that stays within them.
PutLock(g) ==
    /\ At_(g, "PutLock")
    /\ canLock(mu)
    /\ Room(arc, putLocked(arc, gor[g].key, gor[g].value))
    /\ mu' = [mu EXCEPT !.writer = g]
    /\ Goto(g, "PutInsert")
    /\ UNCHANGED <<heap, root, numNodes, numRecords, blobs>>

PutInsert(g) ==
    /\ At_(g, "PutInsert")
    /\ LET r == putLocked(arc, gor[g].key, gor[g].value)
       IN SetArc(IF r.numNodes = numNodes
                 THEN [arc EXCEPT !.numRecords = r.numRecords]
                 ELSE halfDone(arc, r))
    /\ gor' = [gor EXCEPT ![g].pc = "PutReturn", ![g].before = arc]
    /\ UNCHANGED mu

PutReturn(g) ==
    /\ At_(g, "PutReturn")
    /\ LET r == putLocked(gor[g].before, gor[g].key, gor[g].value)
       IN SetArc(Collect(r))
    /\ mu' = [mu EXCEPT !.writer = 0]
    /\ gor' = [gor EXCEPT ![g] = Idle]

\* Get, before the lock
GetCall(g, key) ==
    /\ At_(g, "idle")
    /\ IF key.nil THEN UNCHANGED gor
       ELSE gor' = [gor EXCEPT ![g] = [Idle EXCEPT !.pc = "GetLock", !.key = key]]
    /\ UNCHANGED <<heap, root, numNodes, numRecords, blobs, mu>>

GetLock(g) ==
    /\ At_(g, "GetLock")
    /\ canRLock(mu)
    /\ mu' = [mu EXCEPT !.readers = @ \cup {g}]
    /\ Goto(g, "GetFind")
    /\ UNCHANGED <<heap, root, numNodes, numRecords, blobs>>

\* Get under the lock: the node is looked up, and the return unlocks
GetFind(g) ==
    /\ At_(g, "GetFind")
    /\ Get(arc, gor[g].key).err \in {ErrNone, ErrKeyNotFound}
    /\ mu' = [mu EXCEPT !.readers = @ \ {g}]
    /\ gor' = [gor EXCEPT ![g] = Idle]
    /\ UNCHANGED <<heap, root, numNodes, numRecords, blobs>>

LenLock(g) ==
    /\ At_(g, "idle")
    /\ canRLock(mu)
    /\ mu' = [mu EXCEPT !.readers = @ \cup {g}]
    /\ Goto(g, "LenRead")
    /\ UNCHANGED <<heap, root, numNodes, numRecords, blobs>>

LenRead(g) ==
    /\ At_(g, "LenRead")
    /\ Len_(arc) = numRecords
    /\ mu' = [mu EXCEPT !.readers = @ \ {g}]
    /\ gor' = [gor EXCEPT ![g] = Idle]
    /\ UNCHANGED <<heap, root, numNodes, numRecords, blobs>>

\* Delete, before the lock
DeleteCall(g, key) ==
    /\ At_(g, "idle")
    /\ IF key.nil THEN UNCHANGED gor
       ELSE gor' = [gor EXCEPT ![g] = [Idle EXCEPT !.pc = "DeleteEmpty", !.key = key]]
    /\ UNCHANGED <<heap, root, numNodes, numRecords, blobs, mu>>

\* Delete, before the lock: a.empty() reads root and numRecords.  While a
\* goroutine holds the write lock the read races with its writes, and
\* finds the tree empty or not.
DeleteEmpty(g) ==
    /\ At_(g, "DeleteEmpty")
    /\ \E isEmpty \in (IF mu.writer = 0 THEN {empty(arc)} ELSE BOOLEAN) :
          IF isEmpty \/ longerThan(gor[g].key, maxKeyBytes)
          THEN gor' = [gor EXCEPT ![g] = Idle]
          ELSE Goto(g, "DeleteLock")
    /\ UNCHANGED <<heap, root, numNodes, numRecords, blobs, mu>>

DeleteLock(g) ==
    /\ At_(g, "DeleteLock")
    /\ canLock(mu)
    /\ mu' = [mu EXCEPT !.writer = g]
    /\ Goto(g, "DeleteFind")
    /\ UNCHANGED <<heap, root, numNodes, numRecords, blobs>>

DeleteFind(g) ==
    /\ At_(g, "DeleteFind")
    /\ SetArc(halfDone(arc, deleteLocked(arc, gor[g].key).t))
    /\ gor' = [gor EXCEPT ![g].pc = "DeleteReturn", ![g].before = arc]
    /\ UNCHANGED mu

DeleteReturn(g) ==
    /\ At_(g, "DeleteReturn")
    /\ SetArc(Collect(deleteLocked(gor[g].before, gor[g].key).t))
    /\ mu' = [mu EXCEPT !.writer = 0]
    /\ gor' = [gor EXCEPT ![g] = Idle]

ClearLock(g) ==
    /\ At_(g, "idle")
    /\ canLock(mu)
    /\ mu' = [mu EXCEPT !.writer = g]
    /\ Goto(g, "ClearRoot")
    /\ UNCHANGED <<heap, root, numNodes, numRecords, blobs>>

ClearRoot(g) ==
    /\ At_(g, "ClearRoot")
    /\ SetArc(halfDone(arc, clear(arc)))
    /\ gor' = [gor EXCEPT ![g].pc = "ClearReturn", ![g].before = arc]
    /\ UNCHANGED mu

ClearReturn(g) ==
    /\ At_(g, "ClearReturn")
    /\ SetArc(Collect(clear(gor[g].before)))
    /\ mu' = [mu EXCEPT !.writer = 0]
    /\ gor' = [gor EXCEPT ![g] = Idle]

\* what the calls of the goroutines leave alone
aside == <<last, shadow, fresh, subject, summed, ledger>>

NextConc ==
    \/ \E g \in Goroutines, key \in ConcKeys, value \in ConcValues :
          PutCall(g, key, value) /\ UNCHANGED aside
    \/ \E g \in Goroutines : PutNewNode(g) /\ UNCHANGED aside
    \/ \E g \in Goroutines : PutLock(g) /\ UNCHANGED aside
    \/ \E g \in Goroutines : PutInsert(g) /\ UNCHANGED aside
    \/ \E g \in Goroutines : PutReturn(g) /\ UNCHANGED aside
    \/ \E g \in Goroutines, key \in ConcKeys :
          GetCall(g, key) /\ UNCHANGED aside
    \/ \E g \in Goroutines : GetLock(g) /\ UNCHANGED aside
    \/ \E g \in Goroutines : GetFind(g) /\ UNCHANGED aside
    \/ \E g \in Goroutines : LenLock(g) /\ UNCHANGED aside
    \/ \E g \in Goroutines : LenRead(g) /\ UNCHANGED aside
    \/ \E g \in Goroutines, key \in ConcKeys :
          DeleteCall(g, key) /\ UNCHANGED aside
    \/ \E g \in Goroutines : DeleteEmpty(g) /\ UNCHANGED aside
    \/ \E g \in Goroutines : DeleteLock(g) /\ UNCHANGED aside
    \/ \E g \in Goroutines : DeleteFind(g) /\ UNCHANGED aside
    \/ \E g \in Goroutines : DeleteReturn(g) /\ UNCHANGED aside
    \/ \E g \in Goroutines : ClearLock(g) /\ UNCHANGED aside
    \/ \E g \in Goroutines : ClearRoot(g) /\ UNCHANGED aside
    \/ \E g \in Goroutines : ClearReturn(g) /\ UNCHANGED aside

SpecConc == Init /\ [][NextConc]_vars

\* ----- the blob store on its own ----------------------------------------
\* the values that are put, and the blobIDs that are got and released: the
\* one of every value, and one that no value has
BlobValues == {Bytes(<<1>>), Bytes(<<2>>), Bytes(<<1, 2>>), Bytes(<<2, 1>>), LongValue}
BogusID == Bytes(<<9, 9, 9>>)
BlobIDs == {makeBlobID(value) : value \in BlobValues} \cup {BogusID}

StorePut(value) ==
    /\ blobs' = bsPut(blobs, value).blobs
    /\ \A id \in DOMAIN blobs' : blobs'[id].refCount <= MaxRef
    /\ last' = "put"

StoreGet(id) ==
    /\ bsGet(blobs, id).nil = (id \notin DOMAIN blobs)
    /\ last' = "get"
    /\ UNCHANGED blobs

StoreRelease(id) ==
    /\ blobs' = bsRelease(blobs, id)
    /\ last' = "release"

\* what the calls of the blob store leave alone
tree == <<heap, root, numNodes, numRecords, shadow, fresh, others>>

NextBlob ==
    \/ \E value \in BlobValues : StorePut(value) /\ UNCHANGED tree
    \/ \E id \in BlobIDs : StoreGet(id) /\ UNCHANGED tree
    \/ \E id \in BlobIDs : StoreRelease(id) /\ UNCHANGED tree

SpecBlob == Init /\ [][NextBlob]_vars

\* ----- a node, its checksum and its serialized form --------------------
\* n as little-endian bytes, width of them
RECURSIVE littleEndian(_, _)
littleEndian(n, width) ==
    IF width = 0 THEN <<>>
    ELSE <<n % 256>> \o littleEndian(n \div 256, width - 1)

\* the number that the little-endian bytes s stand for
RECURSIVE fromLittleEndian(_)
fromLittleEndian(s) ==
    IF s = <<>> THEN 0 ELSE s[1] + 256 * fromLittleEndian(Tail(s))

ChecksumSkipsFlag(n) ==
    SumSeq(<<n.key.len + 1>> \o Expand(n.key) \o <<n.data.len + 1>>
           \o Expand(n.data)) + 1

\* the checksum over the key, the value and the isRecord flag of n: 32
\* bits, never 0, and different for the different nodes of the model
calculateChecksum(n) ==
    SumSeq(<<n.key.len + 1>> \o Expand(n.key) \o <<n.data.len + 1>>
           \o Expand(n.data) \o <<IF n.isRecord THEN 2 ELSE 1>>) + 1

updateChecksum(n) == [n EXCEPT !.checksum = calculateChecksum(n)]

verifyChecksum(n) == n.checksum = calculateChecksum(n)

\* the bytes of n: checksum, value length, value, child count, and the
\* region kept for the offsets of the first child and the next sibling
serializeWithoutKey(n) ==
    IF ~verifyChecksum(n) THEN [bytes |-> <<>>, err |-> ErrInvalidChecksum]
    ELSE [bytes |-> littleEndian(n.checksum, sizeOfUint32)
                    \o littleEndian(n.data.len, sizeOfUint64)
                    \o Expand(n.data)
                    \o littleEndian(n.numChildren, sizeOfUint16)
                    \o [i \in 1..(sizeOfUint64 * 2) |-> 0],
          err |-> ErrNone]

\* the view of n that is serialized
asDescriptor(n) ==
    IF ~verifyChecksum(n)
    THEN [descriptor |-> ZeroSubject, err |-> ErrInvalidChecksum]
    ELSE [descriptor |-> [checksum |-> n.checksum, dataLen |-> n.data.len,
                          data |-> n.data, numChildren |-> n.numChildren,
                          isRecord |-> n.isRecord],
          err |-> ErrNone]

\* descriptor.serialize()
serialize(d) ==
    littleEndian(d.checksum, sizeOfUint32)
    \o littleEndian(d.dataLen, sizeOfUint64)
    \o Expand(d.data)
    \o littleEndian(d.numChildren, sizeOfUint16)
    \o [i \in 1..(sizeOfUint64 * 2) |-> 0]

SizeGrowsWithChildren(n) ==
    sizeOfUint32 + sizeOfUint64 + n.data.len + sizeOfUint16
    + sizeOfUint64 * n.numChildren

serializedSize(n) ==
    sizeOfUint32 + sizeOfUint64 + n.data.len + sizeOfUint16 + sizeOfUint64 * 2

\* the bytes read back, as the tests read them
decode(bytes) ==
    LET valLen == fromLittleEndian(SubSeq(bytes, 5, 12))
    IN [checksum |-> fromLittleEndian(SubSeq(bytes, 1, 4)),
        valLen |-> valLen,
        valData |-> SubSeq(bytes, 13, 12 + valLen),
        numChildren |-> fromLittleEndian(SubSeq(bytes, 13 + valLen, 14 + valLen)),
        remaining |-> Len(bytes) - (14 + valLen)]

\* the keys, values and child counts of the node
MaxChildren == 3
SubjectKeys == {NilSlice, Bytes(<<1>>), Bytes(<<2>>), Bytes(<<1, 2>>)}
SubjectValues == {NilSlice, Bytes(<<1>>), Bytes(<<2>>), Bytes(<<2, 1>>)}

\* the key, the value and the flag that the checksum is over
Content(n) ==
    [valid |-> TRUE, key |-> Expand(n.key), data |-> Expand(n.data),
     isRecord |-> n.isRecord]

\* subject := node{key: key, data: data, isRecord: isRecord}
SubjectNew(key, data, isRecord) ==
    /\ subject' = [ZeroSubject EXCEPT !.key = key, !.data = data,
                                      !.isRecord = isRecord]
    /\ summed' = NoSum
    /\ last' = "node"

\* subject.key = key
SubjectSetKey(key) ==
    /\ subject' = [subject EXCEPT !.key = key]
    /\ last' = "key"
    /\ UNCHANGED summed

\* subject.data = data
SubjectSetData(data) ==
    /\ subject' = [subject EXCEPT !.data = data]
    /\ last' = "data"
    /\ UNCHANGED summed

\* subject.isRecord = isRecord
SubjectSetRecord(isRecord) ==
    /\ subject' = [subject EXCEPT !.isRecord = isRecord]
    /\ last' = "isRecord"
    /\ UNCHANGED summed

\* subject.addChild(&node{...})
SubjectAddChild ==
    /\ subject.numChildren < MaxChildren
    /\ subject' = [subject EXCEPT !.numChildren = @ + 1]
    /\ last' = "addChild"
    /\ UNCHANGED summed

\* the prefixes given to prependKey: the keys, and the empty one
Prefixes == SubjectKeys \cup {Bytes(<<>>)}

\* subject.prependKey(prefix), for the prefixes that give one of the keys
SubjectPrependKey(prefix) ==
    /\ prependKey(<<subject>>, 1, prefix)[1].key \in SubjectKeys
    /\ subject' = prependKey(<<subject>>, 1, prefix)[1]
    /\ last' = "prependKey"
    /\ UNCHANGED summed

SubjectUpdateChecksum ==
    /\ subject' = updateChecksum(subject)
    /\ summed' = Content(subject)
    /\ last' = "updateChecksum"

SubjectSerialize ==
    /\ serializeWithoutKey(subject).err \in {ErrNone, ErrInvalidChecksum}
    /\ asDescriptor(subject).err = serializeWithoutKey(subject).err
    /\ last' = "serializeWithoutKey"
    /\ UNCHANGED <<subject, summed>>

\* what the calls on the node leave alone
apart == <<heap, root, numNodes, numRecords, blobs, shadow, fresh, mu, gor, ledger>>

NextNode ==
    \/ \E key \in SubjectKeys, data \in SubjectValues, isRecord \in BOOLEAN :
          SubjectNew(key, data, isRecord) /\ UNCHANGED apart
    \/ \E key \in SubjectKeys : SubjectSetKey(key) /\ UNCHANGED apart
    \/ \E data \in SubjectValues : SubjectSetData(data) /\ UNCHANGED apart
    \/ \E isRecord \in BOOLEAN : SubjectSetRecord(isRecord) /\ UNCHANGED apart
    \/ SubjectAddChild /\ UNCHANGED apart
    \/ \E prefix \in Prefixes : SubjectPrependKey(prefix) /\ UNCHANGED apart
    \/ SubjectUpdateChecksum /\ UNCHANGED apart
    \/ SubjectSerialize /\ UNCHANGED apart

SpecNode == Init /\ [][NextNode]_vars

\* ----- one node and the blob store behind its value ---------------------
\* The node is at address Single of the heap; it is in no tree, and the
\* blob store is empty when it is created.
Single == 1

\* at most MaxPuts values are put in the blob store
MaxPuts == 3

\* values of 0, 1, 32, 33 and 34 bytes, and the nil value
NodeValues ==
    {NilSlice, Make(0), ShortValue, Make(inlineValueThreshold), LongValue,
     Bytes([i \in 1..(inlineValueThreshold + 1) |-> 1]),
     Make(inlineValueThreshold + 2)}

\* the ID that setValue and deleteValue hand to bs.release, if any
releasedBy(h, n) == IF h[n].blobValue THEN <<h[n].data>> ELSE <<>>

\* the ID that setValue gets from bs.put, if any
putBy(val) ==
    IF val.len <= inlineValueThreshold THEN <<>> ELSE <<makeBlobID(val)>>

\* Single.setValue(blobs, val)
NodeSetValue(val) ==
    LET sv == setValue(heap, blobs, Single, val)
    IN /\ Len(ledger.puts) + Len(putBy(val)) <= MaxPuts
       /\ heap' = sv.heap
       /\ blobs' = sv.blobs
       /\ ledger' = [puts |-> ledger.puts \o putBy(val),
                     releases |-> ledger.releases \o releasedBy(heap, Single),
                     value |-> val]
       /\ last' = "setValue"

\* Single.deleteValue(blobs)
NodeDeleteValue ==
    LET dv == deleteValue(heap, blobs, Single)
    IN /\ Len(ledger.releases) <= MaxPuts
       /\ heap' = dv.heap
       /\ blobs' = dv.blobs
       /\ ledger' = [ledger EXCEPT
                       !.releases = @ \o releasedBy(heap, Single),
                       !.value = NilSlice]
       /\ last' = "deleteValue"

\* what the calls on the value of the node leave alone
beside ==
    <<root, numNodes, numRecords, shadow, fresh, mu, gor, subject, summed>>

NextValue ==
    \/ \E val \in NodeValues : NodeSetValue(val) /\ UNCHANGED beside
    \/ NodeDeleteValue /\ UNCHANGED beside

SpecValue == Init /\ [][NextValue]_vars

\* ----- properties -------------------------------------------------------
Found(value) == [value |-> value, err |-> ErrNone]

Stored(t, key) == Get(t, key).err = ErrNone

\* the tree of t: everything but the blob store, with the nodes in preorder
Tree(t) == [Collect(t) EXCEPT !.blobs = EmptyStore]

\* C1: in every reachable state, for every non-nil key within the limit
\* (the empty key included) and every value within the limit (inline or
\* longer than the inline threshold), a Put that returns nil followed by
\* Get of the same key returns the bytes of the value and no error.
C1_PutThenGet ==
    \A key \in Keys, value \in Values :
        LET r == Put(arc, key, value)
        IN r.err = ErrNone => Get(r.t, key) = Found(value)

\* C2: after successful Puts only, Get(k) returns the value of the most
\* recent Put(k, _) when k was put and ErrKeyNotFound when it never was.
C2_PutsAgreeWithMap ==
    \A key \in Keys :
        IF key \in DOMAIN shadow
        THEN Get(arc, key) = Found(shadow[key])
        ELSE Get(arc, key).err = ErrKeyNotFound

\* C3: in every reachable state, for every stored key, after Delete returns
\* nil the record is gone: Get returns ErrKeyNotFound and a second Delete
\* returns ErrKeyNotFound.
C3_DeleteRemoves ==
    \A key \in Keys :
        LET r == Delete(arc, key)
        IN (Stored(arc, key) /\ r.err = ErrNone)
           => /\ Get(r.t, key).err = ErrKeyNotFound
              /\ Delete(r.t, key).err = ErrKeyNotFound

\* C4: in every reachable state, a Delete that returns nil leaves every
\* other stored key retrievable with the value it had before.
C4_DeleteKeepsOthers ==
    \A key \in Keys :
        LET r == Delete(arc, key)
        IN r.err = ErrNone
           => \A other \in Keys \ {key} :
                 Stored(arc, other) => Get(r.t, other) = Get(arc, other)

\* the root record is deleted while the root, with a key of its own, has
\* one child: the child becomes the root and the key stored under it is
\* still found
C4_Witness ==
    \E key \in Keys : \E other \in Keys \ {key} :
        LET r == Delete(arc, key)
        IN /\ Stored(arc, other)
           /\ findNodeAndParent(arc, key).node = root
           /\ heap[root].key.len > 0
           /\ heap[root].numChildren = 1
           /\ r.err = ErrNone
           /\ r.t.root = heap[root].firstChild
           /\ Get(r.t, other) = Get(arc, other)

\* C5: once every key that was put has been deleted with a Delete that
\* returned nil, the tree is empty: Len() is 0, root is nil, numNodes is 0.
C5_DeleteAllEmpties ==
    \A key \in Keys :
        LET r == Delete(arc, key)
        IN (DOMAIN shadow = {key} /\ r.err = ErrNone)
           => (Len_(r.t) = 0 /\ r.t.root = 0 /\ r.t.numNodes = 0)

\* C6: Len() is the number of keys for which Get succeeds, which is the
\* number of keys put and not deleted or cleared since.
C6_LenCountsKeys ==
    /\ Len_(arc) = Cardinality({key \in Keys : Stored(arc, key)})
    /\ Len_(arc) = Cardinality(DOMAIN shadow)

\* the node of t at address n, without its value
Shape(t, n) == [t.heap[n] EXCEPT !.data = NilSlice, !.blobValue = FALSE]

\* C7: in every reachable state, a Put on a key that is a record returns
\* nil and leaves the shape and key segments of the nodes, numNodes and
\* numRecords as they were, and only the value of the key's node changes;
\* a Put that ends on a node that is not a record makes it one, adds one
\* to numRecords and leaves the rest of the graph as it was.
C7_PutOverwrites ==
    \A key \in Keys, value \in Values :
        LET f == findNodeAndParent(arc, key)
            r == Put(arc, key, value)
            after == Collect(r.t)
        IN f.err = ErrNone
           => /\ r.err = ErrNone
              /\ after.root = root
              /\ after.numNodes = numNodes
              /\ after.numRecords =
                    IF heap[f.node].isRecord THEN numRecords ELSE numRecords + 1
              /\ \A n \in NodeIds \ {f.node} : after.heap[n] = heap[n]
              /\ Shape(after, f.node) = [Shape(arc, f.node) EXCEPT !.isRecord = TRUE]
              /\ Get(after, key).err = ErrNone
              /\ \A other \in Values \ {value} :
                    Get(after, key) # Get(Collect(Put(arc, key, other).t), key)

\* a record in a tree of several nodes holds a value and is put another one
C7_Witness ==
    \E key \in Keys, value \in Values :
        /\ Stored(arc, key)
        /\ findNodeAndParent(arc, key).node # root
        /\ Get(arc, key) # Get(Put(arc, key, value).t, key)
        /\ Put(arc, key, value).t.numRecords = numRecords

\* C8: Put with a nil key returns ErrNilKey, with a key beyond the limit
\* ErrKeyTooLarge, with a value beyond the limit ErrValueTooLarge; Get and
\* Delete with a nil key return ErrNilKey; the tree and the blob store are
\* then as they were before the call.
C8_RejectedCallsChangeNothing ==
    /\ \A value \in AllValues :
          Put(arc, NilSlice, value) = [t |-> arc, err |-> ErrNilKey]
    /\ \A value \in AllValues :
          Put(arc, BigKey, value) = [t |-> arc, err |-> ErrKeyTooLarge]
    /\ \A key \in Keys :
          Put(arc, key, BigValue) = [t |-> arc, err |-> ErrValueTooLarge]
    /\ Get(arc, NilSlice).err = ErrNilKey
    /\ Delete(arc, NilSlice) = [t |-> arc, err |-> ErrNilKey]

\* the rejected calls are made on a tree that holds records and a blob
C8_Witness ==
    /\ last = "Put"
    /\ root # 0
    /\ DOMAIN blobs # {}
    /\ Put(arc, NilSlice, LongValue).err = ErrNilKey
    /\ Put(arc, BigKey, LongValue).err = ErrKeyTooLarge
    /\ Put(arc, Bytes(<<1>>), BigValue).err = ErrValueTooLarge

\* C9: Delete of a non-nil key that is not a stored record (never put,
\* already deleted, or ending at a branch node) returns ErrKeyNotFound and
\* leaves the tree as it was; Delete never returns ErrCorrupted.
C9_DeleteOfAbsentKey ==
    /\ \A key \in Keys :
          key \notin DOMAIN shadow
             => Delete(arc, key) = [t |-> arc, err |-> ErrKeyNotFound]
    /\ \A key \in AllKeys : Delete(arc, key).err # ErrCorrupted

\* C10: Clear leaves the empty tree, and the calls made after it return
\* what they return on a new database given the same calls.
C10_ClearIsNew ==
    /\ LET c == clear(arc)
       IN /\ c.root = 0 /\ c.numNodes = 0 /\ c.numRecords = 0
          /\ \A key \in Keys : Get(c, key).err = ErrKeyNotFound
    /\ last = "Clear" => Tree(arc) = Tree(NewArc)
    /\ fresh.cleared
       => /\ Len_(arc) = Len_(fresh.t)
          /\ \A key \in AllKeys : Get(arc, key) = Get(fresh.t, key)
          /\ \A key \in AllKeys : Delete(arc, key).err = Delete(fresh.t, key).err
          /\ \A key \in AllKeys, value \in AllValues :
                Put(arc, key, value).err = Put(fresh.t, key, value).err

\* calls were made after a Clear, on a database whose blob store still
\* holds what the calls before the Clear left in it
C10_Witness ==
    /\ fresh.cleared
    /\ root # 0
    /\ numRecords > 1
    /\ blobs # fresh.t.blobs

\* the statements between the first and the last change of a writer
HalfDonePcs == {"PutReturn", "DeleteReturn", "ClearReturn"}

\* the tree as the last mutation that returned left it
Committed ==
    IF \E w \in Goroutines : gor[w].pc \in HalfDonePcs
    THEN gor[CHOOSE w \in Goroutines : gor[w].pc \in HalfDonePcs].before
    ELSE arc

\* C11: while a goroutine is inside the read section of Get or Len, no
\* goroutine holds the write lock, no writer is between the first and the
\* last change of its mutation, and what the reader finds is what it finds
\* in the tree as the last whole mutation left it, which is the tree before
\* every mutation that has not started changing it.
C11_ReadersSeeWholeMutations ==
    \A g \in Goroutines :
        gor[g].pc \in {"GetFind", "LenRead"}
           => /\ g \in mu.readers
              /\ mu.writer = 0
              /\ \A w \in Goroutines : gor[w].pc \notin HalfDonePcs
              /\ Get(arc, gor[g].key) = Get(Committed, gor[g].key)
              /\ Len_(arc) = Len_(Committed)

\* a Get is inside its read section while a Put of the same key, which
\* will change what Get finds, waits for the lock
C11_Witness ==
    \E g \in Goroutines, w \in Goroutines :
        /\ gor[g].pc = "GetFind"
        /\ gor[w].pc = "PutLock"
        /\ gor[w].key = gor[g].key
        /\ root # 0
        /\ Get(putLocked(arc, gor[w].key, gor[w].value), gor[g].key)
              # Get(arc, gor[g].key)

\* the statements that read or write root, numNodes, numRecords, the nodes
\* or the blob store
WritePcs ==
    {"PutInsert", "PutReturn", "DeleteEmpty", "DeleteFind", "DeleteReturn",
     "ClearRoot", "ClearReturn"}
ReadPcs == {"GetFind", "LenRead"}

\* C12: a goroutine of Put, Delete or Clear that is about to read or write
\* root, numNodes, numRecords or the nodes holds the write lock, one of Get
\* or Len holds the read lock, and the lock is held by such goroutines
\* only.  (The store that newNode.setValue writes to before the lock is not
\* named at its call in Put, and that write is left out here.)
C12_AccessUnderLock ==
    \A g \in Goroutines :
        /\ gor[g].pc \in WritePcs => mu.writer = g
        /\ gor[g].pc \in ReadPcs => g \in mu.readers
        /\ mu.writer = g => gor[g].pc \in WritePcs
        /\ g \in mu.readers => gor[g].pc \in ReadPcs

\* the store after n puts of value
RECURSIVE putTimes(_, _, _)
putTimes(bs, value, n) ==
    IF n = 0 THEN bs ELSE bsPut(putTimes(bs, value, n - 1), value).blobs

\* the entries of the store that hold value
entriesOf(bs, value) == {id \in DOMAIN bs : bs[id].value = value}

\* C13: in every store reached by puts and releases, put of a value returns
\* the blobID of its content, the same at every put; the n-th put in a row,
\* starting where the content is absent, leaves exactly one entry for the
\* content, with refCount n, and get of the ID returns the value; the other
\* entries stay as they were.
C13_PutCountsReferences ==
    \A value \in BlobValues :
        LET id == makeBlobID(value)
        IN /\ bsPut(blobs, value).id = id
           /\ \A other \in BlobValues \ {value} : makeBlobID(other) # id
           /\ bsPut(blobs, value).blobs[id].refCount =
                 (IF id \in DOMAIN blobs THEN blobs[id].refCount ELSE 0) + 1
           /\ id \notin DOMAIN blobs
                 => \A n \in 1..(MaxRef + 1) :
                       LET bs == putTimes(blobs, value, n)
                       IN /\ bsPut(putTimes(blobs, value, n - 1), value).id = id
                          /\ entriesOf(bs, value) = {id}
                          /\ bs[id].refCount = n
                          /\ bsGet(bs, id) = value
                          /\ DOMAIN bs = DOMAIN blobs \cup {id}
                          /\ \A x \in DOMAIN blobs : bs[x] = blobs[x]

\* a value was put again, into a store that holds other values too
C13_Witness ==
    /\ last = "put"
    /\ \E id \in DOMAIN blobs : blobs[id].refCount >= 2
    /\ Cardinality(DOMAIN blobs) >= 2
    /\ \E value \in BlobValues : makeBlobID(value) \notin DOMAIN blobs

\* C14: in every store reached by puts and releases every entry has a
\* refCount of at least 1; release of a present ID takes one from its
\* refCount and removes the entry exactly when that leaves 0, and changes no
\* other entry; release of an ID that is not present leaves the store as it
\* is.
C14_ReleaseCountsDown ==
    /\ \A id \in DOMAIN blobs : blobs[id].refCount >= 1
    /\ \A id \in DOMAIN blobs :
          LET bs == bsRelease(blobs, id)
          IN /\ IF blobs[id].refCount = 1 THEN id \notin DOMAIN bs
                ELSE /\ id \in DOMAIN bs
                     /\ bs[id] = [blobs[id] EXCEPT !.refCount = @ - 1]
             /\ DOMAIN bs \cup {id} = DOMAIN blobs
             /\ \A x \in DOMAIN bs \ {id} : bs[x] = blobs[x]
    /\ \A id \in BlobIDs \ DOMAIN blobs : bsRelease(blobs, id) = blobs

\* a release has left a store with an entry of several references and one
\* of a single reference, and with IDs that are not present
C14_Witness ==
    /\ last = "release"
    /\ \E id \in DOMAIN blobs : blobs[id].refCount >= 2
    /\ \E id \in DOMAIN blobs : blobs[id].refCount = 1
    /\ BlobIDs \ DOMAIN blobs # {}

\* values of 0, 1, 32, 33 and 34 bytes, and the nil value
ThresholdValues ==
    {NilSlice, Make(0), ShortValue, Make(32), Bytes([i \in 1..32 |-> 1]),
     LongValue, Bytes([i \in 1..33 |-> 1]), Make(34)}

\* C15: in every reachable state, for every node, holding a value or not,
\* and every value: setValue marks the node as a record and leaves every
\* other node as it is; a value of at most 32 bytes is kept in the node,
\* which is not flagged blob-valued, and no entry is added to the blob
\* store; a longer value is put in the blob store, where exactly one entry
\* holds it afterwards, added if none held it before, and the node keeps
\* the blobID only and is flagged blob-valued.
C15_SetValueInlineOrBlob ==
    \A n \in NodeIds, value \in ThresholdValues :
        LET sv == setValue(heap, blobs, n, value)
            node == sv.heap[n]
        IN /\ node.isRecord
           /\ \A m \in NodeIds \ {n} : sv.heap[m] = heap[m]
           /\ node = [heap[n] EXCEPT !.isRecord = TRUE, !.data = node.data,
                                     !.blobValue = node.blobValue]
           /\ IF value.len <= 32
              THEN /\ node.data = value
                   /\ ~node.blobValue
                   /\ DOMAIN sv.blobs \subseteq DOMAIN blobs
              ELSE /\ node.blobValue
                   /\ node.data = makeBlobID(value)
                   /\ node.data # value
                   /\ entriesOf(sv.blobs, value) = {node.data}
                   /\ bsGet(sv.blobs, node.data) = value
                   /\ DOMAIN sv.blobs \ DOMAIN blobs \subseteq {node.data}

\* a Put has left a tree with a record whose value is in the node and a
\* record whose value is in the blob store
C15_Witness ==
    /\ last = "Put"
    /\ \E n \in Live(arc) :
          /\ heap[n].isRecord /\ heap[n].blobValue
          /\ heap[n].data \in DOMAIN blobs
          /\ blobs[heap[n].data].value = LongValue
    /\ \E n \in Live(arc) :
          /\ heap[n].isRecord /\ ~heap[n].blobValue
          /\ heap[n].data = ShortValue

\* C16: when the key, the value or the isRecord flag of the node is not
\* what it was at the last updateChecksum, or there was none, both
\* serializeWithoutKey and asDescriptor fail with ErrInvalidChecksum; when
\* it is, both succeed, and the checksum, the value length, the value bytes
\* and the child count read back from the bytes are those of the node.
C16_StaleChecksumFails ==
    LET ser == serializeWithoutKey(subject)
        des == asDescriptor(subject)
        back == decode(ser.bytes)
    IN IF Content(subject) # summed
       THEN /\ ser.err = ErrInvalidChecksum
            /\ des.err = ErrInvalidChecksum
       ELSE /\ ser.err = ErrNone
            /\ des.err = ErrNone
            /\ back.checksum = subject.checksum
            /\ back.valLen = subject.data.len
            /\ back.valData = Expand(subject.data)
            /\ back.numChildren = subject.numChildren
            /\ des.descriptor.numChildren = subject.numChildren
            /\ des.descriptor.dataLen = subject.data.len
            /\ des.descriptor.data = subject.data
            /\ decode(serialize(des.descriptor)) = back

\* a node with children and a value was serialized after updateChecksum,
\* and with another key, another value or the other flag it does not
\* serialize
C16_Witness ==
    /\ last = "serializeWithoutKey"
    /\ Content(subject) = summed
    /\ subject.numChildren >= 2
    /\ subject.data.len > 0
    /\ subject.key.len > 0
    /\ \A key \in SubjectKeys :
          Expand(key) # Expand(subject.key)
             => serializeWithoutKey([subject EXCEPT !.key = key]).err
                   = ErrInvalidChecksum
    /\ \A data \in SubjectValues :
          Expand(data) # Expand(subject.data)
             => asDescriptor([subject EXCEPT !.data = data]).err
                   = ErrInvalidChecksum
    /\ serializeWithoutKey([subject EXCEPT !.isRecord = ~@]).err
          = ErrInvalidChecksum

\* C17: for the node with a checksum that verifies, serializedSize() is the
\* number of bytes of its serialized form, 4 + 8 + len(value) + 2 + 16,
\* with 16 bytes after the child count whatever the child count and the
\* key are.
C17_SerializedSizeIsLength ==
    verifyChecksum(subject)
       => /\ serializedSize(subject) = Len(serializeWithoutKey(subject).bytes)
          /\ serializedSize(subject)
                = Len(serialize(asDescriptor(subject).descriptor))
          /\ serializedSize(subject) = 4 + 8 + subject.data.len + 2 + 16
          /\ decode(serializeWithoutKey(subject).bytes).remaining = 16

\* the node serialized has a key, a value and a number of children that is
\* not two
C17_Witness ==
    /\ last = "serializeWithoutKey"
    /\ verifyChecksum(subject)
    /\ subject.numChildren = MaxChildren
    /\ subject.key.len = 2
    /\ subject.data.len = 2

\* the children of n, as firstChild and nextSibling link them
RECURSIVE siblingsFrom(_, _)
siblingsFrom(h, child) ==
    IF child = 0 THEN <<>> ELSE <<child>> \o siblingsFrom(h, h[child].nextSibling)

children(h, n) == siblingsFrom(h, h[n].firstChild)

\* C18: in every state reached by Put, Delete and Clear, numNodes is the
\* number of nodes reachable from root, numRecords is the number of them
\* with isRecord set, and root is nil exactly when numRecords is 0, and
\* numNodes is 0 then.
C18_CountersMatchTree ==
    /\ numNodes = Cardinality(Live(arc))
    /\ numRecords = Cardinality({n \in Live(arc) : heap[n].isRecord})
    /\ (root = 0) <=> (numRecords = 0)
    /\ root = 0 => numNodes = 0

\* a tree of a branch node that is no record and of records, left by a
\* Delete
C18_Witness ==
    /\ last = "Delete"
    /\ root # 0
    /\ numNodes > numRecords
    /\ numRecords >= 2

\* C19: in every state reached by Put, Delete and Clear, no two children of
\* a node have keys with a common prefix that is not empty, so that for
\* every probe key at most one child shares such a prefix with it, and
\* findCompatibleChild returns that child, and nil when there is none.
C19_SiblingsShareNoPrefix ==
    \A n \in Live(arc) :
        LET cs == children(heap, n)
        IN /\ \A i \in 1..Len(cs), j \in 1..Len(cs) :
                 i # j => longestCommonPrefix(heap[cs[i]].key, heap[cs[j]].key).len = 0
           /\ \A probe \in Keys :
                 LET sharing == {i \in 1..Len(cs) :
                                   longestCommonPrefix(heap[cs[i]].key, probe).len > 0}
                 IN /\ Cardinality(sharing) <= 1
                    /\ findCompatibleChild(heap, n, probe) =
                          (IF sharing = {} THEN 0
                           ELSE cs[CHOOSE i \in sharing : TRUE])

\* a node has several children, and a probe key shares a prefix with the
\* last of them
C19_Witness ==
    \E n \in Live(arc), probe \in Keys :
        LET cs == children(heap, n)
        IN /\ Len(cs) >= 2
           /\ findCompatibleChild(heap, n, probe) = cs[Len(cs)]
           /\ probe # heap[cs[Len(cs)]].key

\* the children of n are in ascending order of their keys
sorted(h, n) ==
    LET cs == children(h, n)
    IN \A i \in 1..(Len(cs) - 1) : ~bytesLess(h[cs[i + 1]].key, h[cs[i]].key)

\* C20: in every state reached by Put, Delete and Clear the children of
\* every node are in ascending order of their keys and numChildren is their
\* number; and they are so after addChild of a new node with any key, and
\* after removeChild of any child.
C20_ChildrenSorted ==
    \A n \in Live(arc) :
        /\ sorted(heap, n)
        /\ heap[n].numChildren = Len(children(heap, n))
        /\ \A key \in Keys :
              LET child == Alloc(Live(arc))
                  h == addChild([heap EXCEPT ![child] = [ZeroNode EXCEPT !.key = key]],
                                n, child)
              IN /\ sorted(h, n)
                 /\ h[n].numChildren = Len(children(h, n))
                 /\ Len(children(h, n)) = Len(children(heap, n)) + 1
                 /\ \E i \in 1..Len(children(h, n)) : children(h, n)[i] = child
        /\ \A i \in 1..Len(children(heap, n)) :
              LET rm == removeChild(heap, n, children(heap, n)[i])
              IN /\ rm.err = ErrNone
                 /\ sorted(rm.heap, n)
                 /\ rm.heap[n].numChildren = Len(children(rm.heap, n))
                 /\ Len(children(rm.heap, n)) = Len(children(heap, n)) - 1

\* a Put has left a node with several children, after a node was given
\* another key
C20_Witness ==
    /\ last = "Put"
    /\ numNodes = MaxNodes
    /\ \E n \in Live(arc) :
          /\ Len(children(heap, n)) >= 2
          /\ bytesLess(heap[children(heap, n)[1]].key, heap[children(heap, n)[2]].key)

\* every node of t that is no record has two children or more
minimal(t) ==
    \A n \in Live(t) :
        ~t.heap[n].isRecord
           => /\ Len(children(t.heap, n)) >= 2
              /\ t.heap[n].numChildren >= 2

\* C21: in every state reached by Put, Delete and Clear no node with
\* isRecord unset has fewer than two children: there is no leaf that is no
\* record and no node that is no record and has a single child; and the
\* tree is so after a Delete of any key.
C21_TrieStaysMinimal ==
    /\ minimal(arc)
    /\ \A key \in Keys : minimal(Delete(arc, key).t)

\* the root is a record with a single child, a branch node that is no
\* record, and the Delete of the root's key makes that child the root
C21_Witness ==
    /\ root # 0
    /\ heap[root].isRecord
    /\ heap[root].numChildren = 1
    /\ ~heap[heap[root].firstChild].isRecord
    /\ \E key \in Keys :
          LET r == Delete(arc, key)
          IN /\ r.err = ErrNone
             /\ r.t.root = heap[root].firstChild
             /\ r.t.numNodes = numNodes - 1
             /\ ~r.t.heap[r.t.root].isRecord

\* the nodes below n
below(h, n) ==
    LET order == Preorder(h, h[n].firstChild)
    IN {order[i] : i \in 1..Len(order)}

\* C22: the Delete of the record of a root with exactly one child makes the
\* child the root, keyed by the key of the old root followed by its own,
\* with its value, its record flag and its children kept, and takes one
\* from numNodes and from numRecords; the Delete of the record of a root
\* with several children leaves the root in place with isRecord unset and
\* the value cleared, numNodes as it was and numRecords one less.
C22_DeleteOfRootRecord ==
    (root # 0 /\ heap[root].isRecord /\ ~isLeaf(heap, root))
       => LET r == Delete(arc, Bytes(Expand(heap[root].key)))
              child == heap[root].firstChild
              h == r.t.heap
          IN /\ r.err = ErrNone
             /\ r.t = deleteRootNode(arc)
             /\ r.t.blobs = blobs
             /\ IF Len(children(heap, root)) = 1
                THEN /\ r.t.root = child
                     /\ Expand(h[child].key)
                           = Expand(heap[root].key) \o Expand(heap[child].key)
                     /\ h[child].data = heap[child].data
                     /\ h[child].blobValue = heap[child].blobValue
                     /\ h[child].isRecord = heap[child].isRecord
                     /\ h[child].firstChild = heap[child].firstChild
                     /\ h[child].numChildren = heap[child].numChildren
                     /\ \A n \in below(heap, child) : h[n] = heap[n]
                     /\ r.t.numNodes = numNodes - 1
                     /\ r.t.numRecords = numRecords - 1
                ELSE /\ r.t.root = root
                     /\ ~h[root].isRecord
                     /\ h[root].data = NilSlice
                     /\ h[root].key = heap[root].key
                     /\ h[root].firstChild = heap[root].firstChild
                     /\ h[root].numChildren = heap[root].numChildren
                     /\ \A n \in below(heap, root) : h[n] = heap[n]
                     /\ r.t.numNodes = numNodes
                     /\ r.t.numRecords = numRecords - 1

\* a Delete has made a child the root, and this root, a record with a key
\* and a value, has again a single child: the Delete of its record gives
\* the child a key of two bytes
C22_Witness ==
    /\ last = "Delete"
    /\ root # 0
    /\ heap[root].isRecord
    /\ heap[root].key.len = 1
    /\ heap[root].data.len > 0
    /\ Len(children(heap, root)) = 1
    /\ LET r == Delete(arc, heap[root].key).t
       IN /\ r.root = heap[root].firstChild
          /\ r.heap[r.root].key.len = 2
          /\ r.heap[r.root].isRecord

\* how many times id is in the log
timesIn(log, id) == Cardinality({i \in 1..Len(log) : log[i] = id})

\* the store holds one entry, with refCount 1, for val when val is longer
\* than 32 bytes, and no entry otherwise
holdsOnly(bs, val) ==
    IF val.len > 32
    THEN /\ DOMAIN bs = {makeBlobID(val)}
         /\ bs[makeBlobID(val)] = [value |-> val, refCount |-> 1]
    ELSE bs = EmptyStore

\* C23: after any sequence of setValue and deleteValue calls on one node,
\* against a blob store that was empty at first, the store holds exactly one
\* entry, with refCount 1, for the value of the node when that value is
\* longer than 32 bytes, and no entry otherwise; the value of the node is the
\* one it was given last; no ID is released more often than it was put;
\* deleteValue clears the value and leaves isRecord as it is, and setValue
\* of any value leaves the store with that value alone.
C23_StoreHoldsTheValue ==
    LET n == heap[Single]
        val == valueOf(heap, blobs, Single)
        dv == deleteValue(heap, blobs, Single)
    IN /\ val = ledger.value
       /\ holdsOnly(blobs, val)
       /\ val.len > 32 => n.blobValue /\ n.data = makeBlobID(val)
       /\ \A id \in DOMAIN blobs :
             blobs[id].refCount
                = timesIn(ledger.puts, id) - timesIn(ledger.releases, id)
       /\ \A i \in 1..Len(ledger.releases) :
             ~ledger.releases[i].nil
                => timesIn(ledger.releases, ledger.releases[i])
                      <= timesIn(ledger.puts, ledger.releases[i])
       /\ dv.blobs = EmptyStore
       /\ dv.heap[Single].data = NilSlice
       /\ dv.heap[Single].isRecord = n.isRecord
       /\ dv.heap[Single].key = n.key
       /\ \A next \in NodeValues :
             LET sv == setValue(heap, blobs, Single, next)
             IN /\ holdsOnly(sv.blobs, next)
                /\ valueOf(sv.heap, sv.blobs, Single) = next
                /\ sv.heap[Single].isRecord

\* a value in the blob store was overwritten by another such value, which
\* deleteValue has released: both IDs were put and released once, the store
\* is empty again and the node is still a record
C23_Witness ==
    /\ last = "deleteValue"
    /\ Len(ledger.puts) = 2
    /\ ledger.puts[1] # ledger.puts[2]
    /\ ledger.releases = ledger.puts
    /\ blobs = EmptyStore
    /\ heap[Single].isRecord
    /\ heap[Single].data = NilSlice

\* the nodes of t whose value is the blob id
referrers(t, id) ==
    {n \in Live(t) : t.heap[n].blobValue /\ t.heap[n].data = id}

\* the blobIDs that the nodes of t hold
referenced(t) ==
    {t.heap[n].data : n \in {m \in Live(t) : /\ t.heap[m].blobValue
                                             /\ ~t.heap[m].data.nil}}

\* C24: after any sequence of Put, Delete and Clear the blob store holds an
\* entry for a blobID exactly when a node reachable from root holds that
\* ID, and the refCount of the entry is the number of these nodes.
C24_StoreMatchesTree ==
    /\ DOMAIN blobs = referenced(arc)
    /\ \A id \in DOMAIN blobs :
          blobs[id].refCount = Cardinality(referrers(arc, id))

\* the nodes from n on, n's siblings and all their descendants, each with
\* the key segments from the root to it put together; prefix is the key of
\* the path to n's parent
RECURSIVE pathKeys(_, _, _)
pathKeys(h, n, prefix) ==
    IF n = 0 THEN {}
    ELSE {<<n, prefix \o Expand(h[n].key)>>}
         \cup pathKeys(h, h[n].firstChild, prefix \o Expand(h[n].key))
         \cup pathKeys(h, h[n].nextSibling, prefix)

\* the record nodes of t, each with the key of its path
records(t) == {p \in pathKeys(t.heap, t.root, <<>>) : t.heap[p[1]].isRecord}

\* C25: in every state reached by Put, Delete and Clear each record node is
\* found by Get, and by Delete, under the key segments of its path put
\* together and under no other key, no two record nodes have the same such
\* key, and numRecords counts these nodes.
C25_RecordsFoundByTheirKey ==
    /\ numRecords = Cardinality(records(arc))
    /\ \A p \in records(arc) :
          /\ findNodeAndParent(arc, Bytes(p[2])).err = ErrNone
          /\ findNodeAndParent(arc, Bytes(p[2])).node = p[1]
          /\ Get(arc, Bytes(p[2])) = Found(heap[p[1]].data)
          /\ Delete(arc, Bytes(p[2])).err = ErrNone
          /\ \A key \in Keys :
                findNodeAndParent(arc, key).node = p[1] => Expand(key) = p[2]
          /\ \A q \in records(arc) : q[2] = p[2] => q[1] = p[1]

\* t after Put(k1, v1) and then Put(k2, v2)
putBoth(t, k1, v1, k2, v2) == Put(Collect(Put(t, k1, v1).t), k2, v2).t

\* C26: in every reachable state, for every two keys k1 and k2 that differ
\* and are not nil, the empty key included, and all values: Put(k1, v1)
\* followed by Put(k2, v2), and Put(k2, v2) followed by Put(k1, v1), lead
\* to the same Len() and the same result of Get for every key.
C26_PutsCommute ==
    Cardinality(Live(arc)) + 2 <= MaxNodes
       => \A k1 \in Keys, k2 \in Keys, v1 \in Values, v2 \in Values :
             k1 # k2
                => LET a == putBoth(arc, k1, v1, k2, v2)
                       b == putBoth(arc, k2, v2, k1, v1)
                   IN /\ Len_(a) = Len_(b)
                      /\ \A key \in Keys : Get(a, key) = Get(b, key)

\* C27: prependKey(prefix) sets the key of the node to the prefix followed
\* by the key it had, leaves the node as it is when the prefix is empty or
\* nil, and in both cases verifyChecksum returns true afterwards, so that
\* the node can be serialized with no updateChecksum in between.
C27_PrependKeepsChecksumValid ==
    \A prefix \in Prefixes :
        LET n == prependKey(<<subject>>, 1, prefix)[1]
        IN /\ Expand(n.key) = Expand(prefix) \o Expand(subject.key)
           /\ prefix.len = 0 => n = subject
           /\ verifyChecksum(n)
           /\ serializeWithoutKey(n).err = ErrNone

====
